---- MODULE Spec2Model ----
(***************************************************************************)
(* A model of the C-style macro static site generator:                     *)
(*   static_site_generator_machine.py  (Preprocessor, main)                *)
(*   static_site_generator.py          (BuildEvent, FileChangeHandler,     *)
(*                                      SiteWatcher)                       *)
(*                                                                         *)
(* Text is modelled as sequences of one-character strings, a directive     *)
(* keyword and a path being one item each; macro and parameter names are   *)
(* one character long.  A file is given by its lines (source) or by the    *)
(* token list its content lexes to (site).                                 *)
(***************************************************************************)
EXTENDS Integers, Sequences, FiniteSets, TLC

\* ------------------------------------------------------------------------
\* Bounds of the model
\* ------------------------------------------------------------------------

\* longest token list of the root file a.html
MaxLen == 3

\* deepest nesting of calls before Python raises RecursionError
RecursionLimit == 8

\* the watcher's clock stops at MaxTime ticks
MaxTime == 4

\* filesystem events waiting for the observer thread
MaxQueue == 1

\* filesystem events waiting for the observer thread, in a burst of events
MaxBurst == 2

\* debounce_seconds, in ticks (one tick is half a second)
Debounce == 1

\* longest line given to process_text on its own
MaxLineLen == 4

\* most lines of a file given as text
MaxLines == 3

\* ------------------------------------------------------------------------
\* Text helpers (Python str operations used by the code)
\* ------------------------------------------------------------------------

IsSpace(c) == c = " "

RECURSIVE lstrip(_)
lstrip(s) ==
    IF s # <<>> /\ IsSpace(Head(s)) THEN lstrip(Tail(s)) ELSE s

RECURSIVE rstrip(_)
rstrip(s) ==
    IF s # <<>> /\ IsSpace(s[Len(s)]) THEN rstrip(SubSeq(s, 1, Len(s) - 1)) ELSE s

strip(s) == rstrip(lstrip(s))

\* ------------------------------------------------------------------------
\* Preprocessor.parse_macro_args
\* ------------------------------------------------------------------------

\* the character loop: st = [args, cur, depth]
RECURSIVE parse_args_loop(_, _, _, _)
parse_args_loop(s, args, cur, depth) ==
    IF s = <<>>
    THEN IF cur # <<>> THEN Append(args, strip(cur)) ELSE args
    ELSE LET c == Head(s) IN
         IF c = "(" THEN parse_args_loop(Tail(s), args, Append(cur, c), depth + 1)
         ELSE IF c = ")" THEN parse_args_loop(Tail(s), args, Append(cur, c), depth - 1)
         ELSE IF c = "," /\ depth = 0
              THEN IF cur # <<>>
                   THEN parse_args_loop(Tail(s), Append(args, strip(cur)), <<>>, depth)
                   ELSE parse_args_loop(Tail(s), args, cur, depth)
         ELSE parse_args_loop(Tail(s), args, Append(cur, c), depth)

\* s.split(sep)
RECURSIVE split_from(_, _, _, _)
split_from(s, sep, k, cur) ==
    IF k > Len(s) THEN << cur >>
    ELSE IF s[k] = sep THEN << cur >> \o split_from(s, sep, k + 1, <<>>)
    ELSE split_from(s, sep, k + 1, Append(cur, s[k]))

split(s, sep) == split_from(s, sep, 1, <<>>)

\* the characters the loops over the stripped lines of args_text go through
RECURSIVE stripped_lines(_)
stripped_lines(lines) ==
    IF lines = <<>> THEN <<>> ELSE strip(Head(lines)) \o stripped_lines(Tail(lines))

parse_macro_args(args_text) ==
    SelectSeq(parse_args_loop(stripped_lines(split(args_text, "\n")), <<>>, <<>>, 0),
              LAMBDA a : strip(a) # <<>>)

\* ------------------------------------------------------------------------
\* Preprocessor.expand_macro
\* ------------------------------------------------------------------------

\* re.sub(r'\{param\}', arg, s): every non-overlapping occurrence, left to right
RECURSIVE re_sub_placeholder(_, _, _)
re_sub_placeholder(param, arg, s) ==
    IF s = <<>> THEN <<>>
    ELSE IF Len(s) >= 3 /\ s[1] = "{" /\ s[2] = param /\ s[3] = "}"
         THEN arg \o re_sub_placeholder(param, arg, SubSeq(s, 4, Len(s)))
         ELSE <<Head(s)>> \o re_sub_placeholder(param, arg, Tail(s))

RECURSIVE substitute_params(_, _, _)
substitute_params(params, args, result) ==
    IF params = <<>> \/ args = <<>> THEN result
    ELSE substitute_params(Tail(params), Tail(args),
                           re_sub_placeholder(Head(params), Head(args), result))

\* [ok |-> FALSE] stands for the raised PreprocessorError (arity mismatch)
expand_macro(macro, args) ==
    IF Len(args) # Len(macro.params)
    THEN [ok |-> FALSE, text |-> <<>>]
    ELSE [ok |-> TRUE, text |-> substitute_params(macro.params, args, macro.body)]

\* ------------------------------------------------------------------------
\* Preprocessor.process_text
\* ------------------------------------------------------------------------

RECURSIVE skip_spaces(_, _)
skip_spaces(line, k) ==
    IF k <= Len(line) /\ IsSpace(line[k]) THEN skip_spaces(line, k + 1) ELSE k

\* ((?:[^()]*|\([^()]*\))*)\)  scanned from position k: the position of the
\* closing parenthesis of the call, or 0 when the pattern cannot match
RECURSIVE scan_args(_, _, _)
scan_args(line, k, depth) ==
    IF k > Len(line) THEN 0
    ELSE IF line[k] = "("
         THEN IF depth = 0 THEN scan_args(line, k + 1, 1) ELSE 0
    ELSE IF line[k] = ")"
         THEN IF depth = 1 THEN scan_args(line, k + 1, 0) ELSE k
    ELSE scan_args(line, k + 1, depth)

\* the pattern NAME\s*\(...\) anchored at position s: [open, close] or close = 0
match_at(line, s, name) ==
    IF line[s] # name THEN [open |-> 0, close |-> 0]
    ELSE LET o == skip_spaces(line, s + 1) IN
         IF o <= Len(line) /\ line[o] = "("
         THEN [open |-> o, close |-> scan_args(line, o + 1, 0)]
         ELSE [open |-> 0, close |-> 0]

\* re.search: the leftmost position where the pattern matches, or 0
re_search(line, name) ==
    LET hits == {s \in 1..Len(line) : match_at(line, s, name).close # 0}
    IN IF hits = {} THEN 0 ELSE CHOOSE s \in hits : \A r \in hits : s <= r

\* one iteration of the loop over self.macros.items()
process_text_one(line, macro) ==
    LET s == re_search(line, macro.name) IN
    IF s = 0 THEN [ok |-> TRUE, text |-> line]
    ELSE LET m    == match_at(line, s, macro.name)
             args == parse_macro_args(SubSeq(line, m.open + 1, m.close - 1))
             e    == expand_macro(macro, args)
         IN IF ~e.ok THEN [ok |-> FALSE, text |-> <<>>]
            ELSE [ok |-> TRUE,
                  text |-> SubSeq(line, 1, s - 1) \o e.text
                           \o SubSeq(line, m.close + 1, Len(line))]

\* macros is the table in dict (insertion) order
RECURSIVE process_text_from(_, _, _)
process_text_from(line, macros, i) ==
    IF i > Len(macros) THEN [ok |-> TRUE, text |-> line]
    ELSE LET r == process_text_one(line, macros[i]) IN
         IF ~r.ok THEN r ELSE process_text_from(r.text, macros, i + 1)

process_text(line, macros) == process_text_from(line, macros, 1)

\* ------------------------------------------------------------------------
\* Tokens, macros, files (class Token, class Macro)
\* ------------------------------------------------------------------------

\* Token: value is the path or symbol of a directive; a DEFINE token carries
\* (name, params, body) and a TEXT token its line in body
Token(type, value, params, body) ==
    [type |-> type, value |-> value, params |-> params, body |-> body]

Directive(type, value) == Token(type, value, <<>>, <<>>)

Text(line) == Token("TEXT", "", <<>>, line)

Macro(name, params, body) == [name |-> name, params |-> params, body |-> body]

\* the names of a macro table: the table is the sequence of its Macro values
keys(table) == { table[i].name : i \in DOMAIN table }

\* ------------------------------------------------------------------------
\* Preprocessor.collect_macro_body and Preprocessor.tokenize
\* ------------------------------------------------------------------------

\* \w, \s and the characters of a parameter list [\w\s,]
WordChars == { "A", "B", "M", "X", "H", "t", "v", "x" }
Spaces == { " " }
ParamChars == WordChars \cup Spaces \cup { "," }

startswith(line, prefix) == line # <<>> /\ line[1] = prefix

contains(line, c) == \E k \in DOMAIN line : line[k] = c

\* line.rindex(c)
rindex(line, c) ==
    CHOOSE k \in DOMAIN line : line[k] = c /\ \A j \in DOMAIN line : line[j] = c => j <= k

\* '\n'.join(lines)
RECURSIVE join(_)
join(lines) ==
    IF lines = <<>> THEN <<>>
    ELSE IF Len(lines) = 1 THEN lines[1]
    ELSE lines[1] \o << "\n" >> \o join(Tail(lines))

\* the position after the longest run of characters of `class` that starts at k
RECURSIVE skip(_, _, _)
skip(line, k, class) ==
    IF k <= Len(line) /\ line[k] \in class THEN skip(line, k + 1, class) ELSE k

at(line, k, class) == k <= Len(line) /\ line[k] \in class

\* the for loop of collect_macro_body over the characters of a line
RECURSIVE count_parens(_, _)
count_parens(line, paren_count) ==
    IF line = <<>> THEN paren_count
    ELSE count_parens(Tail(line),
                      CASE Head(line) = "(" -> paren_count + 1
                        [] Head(line) = ")" -> paren_count - 1
                        [] OTHER -> paren_count)

\* the while loop of collect_macro_body; [ok |-> FALSE] stands for the raised
\* PreprocessorError, end is the index of the line the loop stopped at
RECURSIVE collect_body_loop(_, _, _, _)
collect_body_loop(lines, i, body, paren_count) ==
    IF i > Len(lines) THEN [ok |-> TRUE, body |-> join(body), end |-> i]
    ELSE LET line == rstrip(lines[i])
             n    == count_parens(line, paren_count)
         IN IF n > 0 THEN collect_body_loop(lines, i + 1, Append(body, line), n)
            ELSE IF n = 0 /\ contains(line, ")")
            THEN [ok |-> TRUE,
                  body |-> join(Append(body, SubSeq(line, 1, rindex(line, ")") - 1))),
                  end |-> i]
            ELSE [ok |-> FALSE, body |-> <<>>, end |-> i]

collect_macro_body(lines, start_idx) == collect_body_loop(lines, start_idx, <<>>, 0)

NoMatch == [ok |-> FALSE, name |-> "", params |-> <<>>, open |-> 0]

\* [p.strip() for p in params.split(',')] if params else []
RECURSIVE param_names(_)
param_names(pieces) ==
    IF pieces = <<>> THEN <<>>
    ELSE LET p == strip(Head(pieces)) IN
         << IF p = <<>> THEN "" ELSE p[1] >> \o param_names(Tail(pieces))

\* re.match(r'#define\s+(\w+)(?:\(([\w\s,]*)\))?\s*\(', line): open is the
\* position of the parenthesis the pattern ends with
define_match(line) ==
    LET n == skip(line, 2, Spaces)
        w == skip(line, n, WordChars)
        p == skip(line, w + 1, ParamChars)
        q == skip(line, p + 1, Spaces)
        r == skip(line, w, Spaces)
    IN IF ~(n > 2 /\ w = n + 1) THEN NoMatch
       ELSE IF at(line, w, { "(" }) /\ at(line, p, { ")" }) /\ at(line, q, { "(" })
       THEN [ok |-> TRUE, name |-> line[n],
             params |-> IF p = w + 1 THEN <<>>
                        ELSE param_names(split(SubSeq(line, w + 1, p - 1), ",")),
             open |-> q]
       ELSE IF at(line, r, { "(" })
       THEN [ok |-> TRUE, name |-> line[n], params |-> <<>>, open |-> r]
       ELSE NoMatch

\* re.match(r'#ifdef\s+(\w+)', line), and the same for #ifndef and #undef
symbol_match(line) ==
    LET n == skip(line, 2, Spaces) IN
    IF n > 2 /\ skip(line, n, WordChars) = n + 1
    THEN [ok |-> TRUE, name |-> line[n]]
    ELSE [ok |-> FALSE, name |-> ""]

\* re.match(r'#include\s*[<"](.+)[>"]', line)
include_match(line) ==
    LET o == skip(line, 2, Spaces) IN
    IF at(line, o, { "<", "\"" }) /\ at(line, o + 2, { ">", "\"" })
    THEN [ok |-> TRUE, path |-> line[o + 1]]
    ELSE [ok |-> FALSE, path |-> ""]

\* re.match(r'(\w+)\s*\(', line) and match.group(1) in self.macros
call_match(line, table) ==
    /\ skip(line, 1, WordChars) = 2
    /\ at(line, skip(line, 2, Spaces), { "(" })
    /\ line[1] \in keys(table)

\* one iteration of tokenize's while loop: the tokens it appends and the index
\* of the line the next iteration starts at
tokenize_line(lines, i, table) ==
    LET line == strip(lines[i])
        one(tok) == [ok |-> TRUE, tokens |-> << tok >>, next |-> i + 1]
        none == [ok |-> TRUE, tokens |-> <<>>, next |-> i + 1]
        failed == [ok |-> FALSE, tokens |-> <<>>, next |-> i]
        text == IF contains(line, "(") /\ call_match(line, table)
                THEN LET b == collect_macro_body(lines, i) IN
                     IF ~b.ok THEN failed
                     ELSE [ok |-> TRUE,
                           tokens |-> << Text(<< line[1], "(" >> \o b.body \o << ")" >>) >>,
                           next |-> b.end + 1]
                ELSE one(Text(line))
    IN CASE line = <<>> -> none
         [] startswith(line, "#include") ->
              LET m == include_match(line) IN
              IF m.ok THEN one(Directive("INCLUDE", m.path)) ELSE none
         [] startswith(line, "#define") ->
              LET m == define_match(line) IN
              IF ~m.ok THEN text
              ELSE LET b == collect_macro_body(lines, i) IN
                   IF ~b.ok THEN failed
                   ELSE [ok |-> TRUE,
                         tokens |-> << Token("DEFINE", m.name, m.params, b.body) >>,
                         next |-> b.end + 1]
         [] startswith(line, "#ifdef") ->
              LET m == symbol_match(line) IN
              IF m.ok THEN one(Directive("IFDEF", m.name)) ELSE none
         [] startswith(line, "#ifndef") ->
              LET m == symbol_match(line) IN
              IF m.ok THEN one(Directive("IFNDEF", m.name)) ELSE none
         [] startswith(line, "#else") -> one(Directive("ELSE", ""))
         [] startswith(line, "#endif") -> one(Directive("ENDIF", ""))
         [] startswith(line, "#undef") ->
              LET m == symbol_match(line) IN
              IF m.ok THEN one(Directive("UNDEF", m.name)) ELSE none
         [] OTHER -> text

RECURSIVE tokenize_from(_, _, _, _)
tokenize_from(lines, i, table, tokens) ==
    IF i > Len(lines) THEN [ok |-> TRUE, tokens |-> tokens]
    ELSE LET r == tokenize_line(lines, i, table) IN
         IF ~r.ok THEN [ok |-> FALSE, tokens |-> <<>>]
         ELSE tokenize_from(lines, r.next, table, tokens \o r.tokens)

\* lines is content.split('\n'), table is self.macros at the time of the call;
\* [ok |-> FALSE] stands for the PreprocessorError of collect_macro_body
tokenize(lines, table) == tokenize_from(lines, 1, table, <<>>)

\* the line `#define NAME(params)(body)`
DefineLine(name, params, body) ==
    << "#define", " ", name, "(" >> \o params \o << ")", "(" >> \o body \o << ")" >>

\* the Macro that collect_macros makes of the DEFINE token of a one-line file
MacroOf(line) ==
    LET tok == tokenize(<< line >>, <<>>).tokens[1] IN
    Macro(tok.value, tok.params, tok.body)

\* the DEFINE token of `#define X()(t)`
DefineX == tokenize(<< DefineLine("X", <<>>, << "t" >>) >>, <<>>).tokens[1]

\* the tokens a line of the root file a.html can lex to
RootTokens ==
    { Directive("INCLUDE", "b.html"),
      DefineX,
      Directive("IFDEF", "X"), Directive("IFNDEF", "X"),
      Directive("ELSE", ""), Directive("ENDIF", ""),
      Directive("UNDEF", "X"),
      Text(<<"t">>),
      Text(<<"X", "(", ")">>) }

\* the contents of b.html; m.html does not exist
IncludedFiles ==
    { << DefineX, Text(<<"t">>) >>,
      << Text(<<"X", "(", ")">>) >>,
      << Text(<<"X", "(", "t", ")">>) >>,
      << Directive("INCLUDE", "a.html") >>,
      << Directive("INCLUDE", "./b.html") >>,
      << Directive("INCLUDE", "m.html"), Directive("INCLUDE", "./b.html") >>,
      << Directive("IFDEF", "X") >>,
      << Directive("ENDIF", ""), Text(<<"t">>) >> }

RECURSIVE SeqsUpTo(_, _)
SeqsUpTo(S, n) ==
    IF n = 0 THEN { <<>> }
    ELSE LET shorter == SeqsUpTo(S, n - 1)
         IN shorter \cup { Append(q, x) : q \in shorter, x \in S }

\* the files os.walk yields, in the order it yields them
WalkOrder == << "a.html", "b.html", "style.css", "site.py" >>

HtmlFiles == { "a.html", "b.html" }

Sites == { [f \in HtmlFiles |-> IF f = "a.html" THEN a ELSE b] :
             a \in SeqsUpTo(RootTokens, MaxLen), b \in IncludedFiles }

endswith(file, ext) ==
    CASE ext = ".py"   -> file \in { "site.py" }
      [] ext = ".html" -> file \in { "a.html", "b.html", "m.html" }

\* os.path.normpath(os.path.join(os.path.dirname(token.file), token.value)):
\* every file lies in the source directory
normpath(value) ==
    CASE value = "./b.html" -> "b.html"
      [] value = "./a.html" -> "a.html"
      [] OTHER -> value

\* ------------------------------------------------------------------------
\* State
\* ------------------------------------------------------------------------

VARIABLES
    \* the Preprocessor instance (Preprocessor.__init__)
    macros,             \* dict name -> Macro, as the sequence of its values in insertion order
    defined_symbols,    \* set of names
    include_stack,      \* sequence of paths
    conditional_stack,  \* sequence of booleans
    \* the file system
    site,               \* html file -> the token list its content lexes to
    source,             \* html file given as text -> its lines (content.split('\n'))
    status,             \* file of the walk -> what the build did with it
    written,            \* html file -> the lines written to build/
    \* each thread's position
    pc,                 \* thread -> label
    frames,             \* thread -> its stack of collect_macros / process_tokens calls
    walk,               \* thread -> index into WalkOrder of the file generate_site is at
    \* history: #ifdef/#ifndef tokens walked by pass 2 and not yet closed by an #endif
    open_ifs,
    \* history: the macro table, the defined symbols and the conditional stack
    \* when process_file was last called
    file_start,
    \* the watcher's BuildEvent and FileChangeHandler
    is_building, needs_rebuild, last_trigger,
    lock,               \* the thread holding BuildEvent.lock, or "free"
    file_hashes,        \* the content of a.html _update_file_hashes last saw
    now,                \* time.time(), in ticks
    queue,              \* filesystem events the observer has not dispatched yet
    \* history: an event handler found a build running and set needs_rebuild,
    \* and no build has started since
    owed,
    \* history of the watcher.  A build is named by the time it started at.
    \* handling: the build that was running when the event the observer is
    \* handling arrived (0: none); caused: for each build that events on their
    \* way arrived during, the builds they have started; failed: a build failed
    hist,
    \* the input and result of one process_text call
    line, emitted

ppvars == << macros, defined_symbols, include_stack, conditional_stack, open_ifs,
            file_start >>
fsvars == << site, source, status, written >>
ctlvars == << pc, frames, walk >>
watchvars == << is_building, needs_rebuild, last_trigger, lock, file_hashes, now,
               queue, owed, hist >>
textvars == << line, emitted >>
vars == << ppvars, fsvars, ctlvars, watchvars, textvars >>

Threads == { "cli", "main", "observer", "worker1", "worker2" }

\* ------------------------------------------------------------------------
\* The macro table (a Python dict keeps insertion order)
\* ------------------------------------------------------------------------

\* self.macros[name] = Macro(...)
dict_set(table, m) ==
    IF m.name \in keys(table)
    THEN [i \in DOMAIN table |-> IF table[i].name = m.name THEN m ELSE table[i]]
    ELSE Append(table, m)

\* del self.macros[name]
dict_del(table, name) == SelectSeq(table, LAMBDA m : m.name # name)

pop(stack) == SubSeq(stack, 1, Len(stack) - 1)

\* ------------------------------------------------------------------------
\* The state one thread's step reads and writes, as a record
\* ------------------------------------------------------------------------

State(t) ==
    [ macros |-> macros, defined_symbols |-> defined_symbols,
      include_stack |-> include_stack, conditional_stack |-> conditional_stack,
      open_ifs |-> open_ifs, file_start |-> file_start,
      status |-> status, written |-> written,
      pc |-> pc[t], frames |-> frames[t], walk |-> walk[t] ]

Becomes(t, S) ==
    /\ macros' = S.macros
    /\ defined_symbols' = S.defined_symbols
    /\ include_stack' = S.include_stack
    /\ conditional_stack' = S.conditional_stack
    /\ open_ifs' = S.open_ifs
    /\ file_start' = S.file_start
    /\ status' = S.status
    /\ written' = S.written
    /\ pc' = [pc EXCEPT ![t] = S.pc]
    /\ frames' = [frames EXCEPT ![t] = S.frames]
    /\ walk' = [walk EXCEPT ![t] = S.walk]

Frame(fn, file, tokens, inc) ==
    [ fn |-> fn, file |-> file, tokens |-> tokens, i |-> 1, out |-> <<>>, inc |-> inc ]

top(S) == S.frames[Len(S.frames)]

\* i += 1 / the for loop's next token
advance(S) == [S EXCEPT !.frames[Len(S.frames)].i = @ + 1]

\* open(path) succeeds
exists(path) == path \in DOMAIN site

\* open(path).read() and self.tokenize(content, path), for a file that exists
open_and_tokenize(S, path) ==
    IF path \in DOMAIN source THEN tokenize(source[path], S.macros)
    ELSE [ok |-> TRUE, tokens |-> site[path]]

\* the try/finally blocks of process_include_macros and process_include that
\* are active in a call stack: one per frame entered through an #include
finally_blocks(frs) == Cardinality({ k \in DOMAIN frs : frs[k].inc })

\* unwind altered: the pops are not in finally clauses
unwind_without_finally(stack, n) == stack

\* the finally clauses run while an exception unwinds: one pop each
unwind(stack, n) == SubSeq(stack, 1, Len(stack) - n)

\* on_file_error altered: no except clause around process_file
on_file_error_propagates == "raised"

\* generate_site's except clause: the error is printed and the loop goes on
on_file_error == "walk"

\* an exception raised under process_file, with `blocks` finally clauses to run
raise(S, kind, blocks) ==
    [S EXCEPT !.frames = <<>>,
              !.include_stack = unwind(S.include_stack, blocks),
              !.status[WalkOrder[S.walk]] = kind,
              !.walk = IF on_file_error = "walk" THEN @ + 1 ELSE @,
              !.pc = on_file_error]

\* ------------------------------------------------------------------------
\* Preprocessor.handle_conditional_directive
\* ------------------------------------------------------------------------

\* handle_conditional_directive altered: #else inverts every element
handle_conditional_directive_all(tok, stack, symbols) ==
    CASE tok.type = "IFDEF" ->
           [ok |-> TRUE, err |-> "", stack |-> Append(stack, tok.value \in symbols)]
      [] tok.type = "IFNDEF" ->
           [ok |-> TRUE, err |-> "", stack |-> Append(stack, tok.value \notin symbols)]
      [] tok.type = "ELSE" ->
           IF stack = <<>>
           THEN [ok |-> FALSE, err |-> "else without if", stack |-> stack]
           ELSE [ok |-> TRUE, err |-> "", stack |-> [k \in DOMAIN stack |-> ~stack[k]]]
      [] tok.type = "ENDIF" ->
           IF stack = <<>>
           THEN [ok |-> FALSE, err |-> "endif without if", stack |-> stack]
           ELSE [ok |-> TRUE, err |-> "", stack |-> pop(stack)]

\* [ok |-> FALSE, err] stands for the raised PreprocessorError
handle_conditional_directive(tok, stack, symbols) ==
    CASE tok.type = "IFDEF" ->
           [ok |-> TRUE, err |-> "", stack |-> Append(stack, tok.value \in symbols)]
      [] tok.type = "IFNDEF" ->
           [ok |-> TRUE, err |-> "", stack |-> Append(stack, tok.value \notin symbols)]
      [] tok.type = "ELSE" ->
           IF stack = <<>>
           THEN [ok |-> FALSE, err |-> "else without if", stack |-> stack]
           ELSE [ok |-> TRUE, err |-> "",
                 stack |-> [stack EXCEPT ![Len(stack)] = ~stack[Len(stack)]]]
      [] tok.type = "ENDIF" ->
           IF stack = <<>>
           THEN [ok |-> FALSE, err |-> "endif without if", stack |-> stack]
           ELSE [ok |-> TRUE, err |-> "", stack |-> pop(stack)]

\* ------------------------------------------------------------------------
\* Preprocessor.collect_macros and process_include_macros (pass 1)
\* ------------------------------------------------------------------------

\* on_include_stack altered: no path is ever found
never_on_include_stack(path, stack) == FALSE

\* on_include_stack altered: only the including file is compared
on_top_of_include_stack(path, stack) == stack # <<>> /\ stack[Len(stack)] = path

\* `include_path in self.include_stack`
on_include_stack(path, stack) == \E k \in DOMAIN stack : stack[k] = path

\* the DEFINE branch of collect_macros
collect_define(S, tok) ==
    [S EXCEPT !.macros = dict_set(@, Macro(tok.value, tok.params, tok.body)),
              !.defined_symbols = @ \cup { tok.value }]

\* process_include_macros altered: pass 1 does not follow #include
skip_include_macros(S, tok) == S

process_include_macros(S, tok) ==
    LET include_path == normpath(tok.value)
        pushed == [S EXCEPT !.include_stack = Append(@, include_path)]
    IN IF on_include_stack(include_path, S.include_stack)
       THEN raise(S, "circular", finally_blocks(S.frames))
       ELSE IF ~exists(include_path)
       THEN raise(pushed, "missing", finally_blocks(S.frames) + 1)
       ELSE IF ~open_and_tokenize(S, include_path).ok
       THEN raise(pushed, "unmatched", finally_blocks(S.frames) + 1)
       ELSE IF Len(S.frames) >= RecursionLimit
       THEN raise(pushed, "recursion", finally_blocks(S.frames) + 1)
       ELSE [pushed EXCEPT !.frames =
               Append(@, Frame("collect_macros", include_path,
                               open_and_tokenize(S, include_path).tokens, TRUE))]

\* one iteration of collect_macros' loop, or its return
collect_macros(S) ==
    LET f == top(S) IN
    IF f.i > Len(f.tokens)
    THEN [S EXCEPT !.frames = pop(@),
                   !.include_stack = IF f.inc THEN pop(@) ELSE @]
    ELSE LET tok == f.tokens[f.i] IN
         CASE tok.type = "DEFINE"  -> advance(collect_define(S, tok))
           [] tok.type = "INCLUDE" -> process_include_macros(advance(S), tok)
           [] OTHER -> advance(S)

\* ------------------------------------------------------------------------
\* Preprocessor.process_tokens and process_include (pass 2)
\* ------------------------------------------------------------------------

\* a process_tokens call starts with pass 1 over the same tokens
call_process_tokens(tokens, file, inc) ==
    << Frame("process_tokens", file, tokens, inc),
       Frame("collect_macros", file, tokens, FALSE) >>

process_include(S, tok) ==
    LET include_path == normpath(tok.value)
        pushed == [S EXCEPT !.include_stack = Append(@, include_path)]
    IN IF ~exists(include_path)
       THEN raise(pushed, "missing", finally_blocks(S.frames) + 1)
       ELSE IF ~open_and_tokenize(S, include_path).ok
       THEN raise(pushed, "unmatched", finally_blocks(S.frames) + 1)
       ELSE IF Len(S.frames) >= RecursionLimit
       THEN raise(pushed, "recursion", finally_blocks(S.frames) + 1)
       ELSE [pushed EXCEPT !.frames =
               @ \o call_process_tokens(open_and_tokenize(S, include_path).tokens,
                                        include_path, TRUE)]

\* undef altered: the directive does nothing
undef_nothing(S, tok) == S

\* undef altered: the symbol is left in defined_symbols
undef_table_only(S, tok) == [S EXCEPT !.macros = dict_del(@, tok.value)]

\* the UNDEF branch of process_tokens
undef(S, tok) ==
    [S EXCEPT !.macros = dict_del(@, tok.value),
              !.defined_symbols = @ \ { tok.value }]

\* suppressed altered: every region is taken as active
never_suppressed(stack) == FALSE

\* `self.conditional_stack and not self.conditional_stack[-1]`
suppressed(stack) == stack # <<>> /\ ~stack[Len(stack)]

\* the token of a suppressed region: only ENDIF and ELSE are handled
skip_token(S, tok) ==
    IF tok.type \in { "ENDIF", "ELSE" }
    THEN [S EXCEPT !.conditional_stack =
            handle_conditional_directive(tok, @, S.defined_symbols).stack]
    ELSE S

\* history: the #ifdef/#ifndef directives pass 2 has walked and no #endif closed
count_open(S, tok) ==
    CASE tok.type \in { "IFDEF", "IFNDEF" } -> [S EXCEPT !.open_ifs = @ + 1]
      [] tok.type = "ENDIF" /\ S.open_ifs > 0 -> [S EXCEPT !.open_ifs = @ - 1]
      [] OTHER -> S

\* output.append(text), with the filter(None, output) of the final join
emit(S, lines) ==
    [S EXCEPT !.frames[Len(S.frames)].out = @ \o SelectSeq(lines, LAMBDA l : l # <<>>)]

\* the token of an active region
process_token(S, tok) ==
    CASE tok.type = "INCLUDE" -> process_include(advance(S), tok)
      [] tok.type = "TEXT" ->
           LET r == process_text(tok.body, S.macros) IN
           IF r.ok THEN advance(emit(S, << r.text >>))
           ELSE raise(S, "arity", finally_blocks(S.frames))
      [] tok.type \in { "IFDEF", "IFNDEF", "ELSE", "ENDIF" } ->
           LET h == handle_conditional_directive(tok, S.conditional_stack,
                                                 S.defined_symbols) IN
           IF h.ok THEN advance([S EXCEPT !.conditional_stack = h.stack])
           ELSE raise(S, h.err, finally_blocks(S.frames))
      [] tok.type = "UNDEF" -> advance(undef(S, tok))
      [] OTHER -> advance(S)

\* process_tokens returns '\n'.join(filter(None, output)): to process_include's
\* caller, which appends it to its own output, or to generate_site, which writes it
return_output(S) ==
    LET f == top(S) IN
    IF Len(S.frames) = 1
    THEN [S EXCEPT !.frames = <<>>,
                   !.status[WalkOrder[S.walk]] = "written",
                   !.written[WalkOrder[S.walk]] = f.out,
                   !.walk = @ + 1]
    ELSE emit([S EXCEPT !.frames = pop(@),
                        !.include_stack = IF f.inc THEN pop(@) ELSE @],
              f.out)

\* one iteration of process_tokens' while loop, or its return
process_tokens(S) ==
    LET f == top(S) IN
    IF f.i > Len(f.tokens) THEN return_output(S)
    ELSE LET tok == f.tokens[f.i]
             S1  == count_open(S, tok)
         IN IF suppressed(S.conditional_stack)
            THEN advance(skip_token(S1, tok))
            ELSE process_token(S1, tok)

\* ------------------------------------------------------------------------
\* Preprocessor.generate_site
\* ------------------------------------------------------------------------

\* shutil.rmtree(build_dir); os.makedirs(build_dir)
fresh_build_dir(S) ==
    [S EXCEPT !.status = [f \in DOMAIN S.status |-> "absent"],
              !.written = [f \in DOMAIN S.written |-> <<>>],
              !.walk = 1,
              !.pc = "walk"]

\* one iteration of the loop over the walked files, or the return
walk_file(S) ==
    IF S.walk > Len(WalkOrder) THEN [S EXCEPT !.pc = "returned"]
    ELSE LET file == WalkOrder[S.walk] IN
         IF endswith(file, ".py") THEN [S EXCEPT !.walk = @ + 1]
         ELSE IF ~endswith(file, ".html")
         THEN [S EXCEPT !.status[file] = "copied", !.walk = @ + 1]
         ELSE LET started == [S EXCEPT !.file_start =
                                 [macros |-> S.macros,
                                  defined_symbols |-> S.defined_symbols,
                                  conditional_stack |-> S.conditional_stack]]
              IN IF ~open_and_tokenize(S, file).ok
                 THEN raise(started, "unmatched", 0)
                 ELSE [started EXCEPT !.frames =
                         call_process_tokens(open_and_tokenize(S, file).tokens,
                                             file, FALSE)]

\* ------------------------------------------------------------------------
\* Actions of a thread inside Preprocessor.generate_site
\* ------------------------------------------------------------------------

Others == UNCHANGED << site, source, watchvars, textvars >>

GenerateSite(t) ==
    /\ pc[t] = "generate_site"
    /\ Becomes(t, fresh_build_dir(State(t)))
    /\ Others

\* shutil.rmtree or os.makedirs fails: the exception leaves generate_site
GenerateSiteFails(t) ==
    /\ pc[t] = "generate_site"
    /\ pc' = [pc EXCEPT ![t] = "io_error"]
    /\ UNCHANGED << ppvars, fsvars, frames, walk, watchvars, textvars >>

WalkFile(t) ==
    /\ pc[t] = "walk"
    /\ frames[t] = <<>>
    /\ Becomes(t, walk_file(State(t)))
    /\ Others

CollectMacros(t) ==
    /\ pc[t] = "walk"
    /\ frames[t] # <<>>
    /\ top(State(t)).fn = "collect_macros"
    /\ Becomes(t, collect_macros(State(t)))
    /\ Others

ProcessTokens(t) ==
    /\ pc[t] = "walk"
    /\ frames[t] # <<>>
    /\ top(State(t)).fn = "process_tokens"
    /\ Becomes(t, process_tokens(State(t)))
    /\ Others

Generate(t) ==
    \/ GenerateSite(t)
    \/ GenerateSiteFails(t)
    \/ WalkFile(t)
    \/ CollectMacros(t)
    \/ ProcessTokens(t)

\* ------------------------------------------------------------------------
\* static_site_generator_machine.main: one Preprocessor, one generate_site
\* ------------------------------------------------------------------------

NoFrames == [t \in Threads |-> <<>>]

InitPreprocessor ==
    /\ macros = <<>>
    /\ defined_symbols = {}
    /\ include_stack = <<>>
    /\ conditional_stack = <<>>
    /\ open_ifs = 0
    /\ file_start = [macros |-> <<>>, defined_symbols |-> {},
                     conditional_stack |-> <<>>]

\* no file is given as text
NoSource == [f \in {} |-> <<>>]

InitBuildDir ==
    /\ status = [k \in { WalkOrder[j] : j \in DOMAIN WalkOrder } |-> "absent"]
    /\ written = [f \in HtmlFiles |-> <<>>]

NoHistory ==
    [ handling |-> 0, caused |-> [n \in 1..MaxTime |-> 0], failed |-> FALSE ]

\* history h once the observer has taken up or finished an event (handling
\* becomes n) and the events of q are waiting: the count of a build none of
\* whose events is on its way any more is dropped
observer_history(h, n, q) ==
    [h EXCEPT !.handling = n,
              !.caused = [b \in DOMAIN @ |->
                            IF b = n \/ \E k \in DOMAIN q : q[k].during = b
                            THEN @[b] ELSE 0]]

InitWatcherOff ==
    /\ is_building = FALSE
    /\ needs_rebuild = FALSE
    /\ last_trigger = 0
    /\ lock = "free"
    /\ file_hashes = 0
    /\ now = 0
    /\ queue = <<>>
    /\ owed = FALSE
    /\ hist = NoHistory

NotEmitted == [done |-> FALSE, ok |-> TRUE, text |-> <<>>]

InitTextOff ==
    /\ line = <<>>
    /\ emitted = NotEmitted

Init ==
    /\ InitPreprocessor
    /\ InitBuildDir
    /\ site \in Sites
    /\ source = NoSource
    /\ pc = [t \in Threads |-> IF t = "cli" THEN "generate_site" ELSE "off"]
    /\ frames = NoFrames
    /\ walk = [t \in Threads |-> 1]
    /\ InitWatcherOff
    /\ InitTextOff

\* try: generate_site() ... except: exit(1)
MainExit ==
    /\ pc["cli"] \in { "returned", "io_error", "raised" }
    /\ pc' = [pc EXCEPT !["cli"] = IF pc["cli"] = "returned" THEN "exit0" ELSE "exit1"]
    /\ UNCHANGED << ppvars, fsvars, frames, walk, watchvars, textvars >>

Next ==
    \/ Generate("cli")
    \/ MainExit

Spec == Init /\ [][Next]_vars

\* ------------------------------------------------------------------------
\* static_site_generator.py: BuildEvent, FileChangeHandler, SiteWatcher
\* ------------------------------------------------------------------------

WatchThreads == { "main", "observer", "worker1", "worker2" }

\* the threads started by threading.Thread(target=self._trigger_build)
Workers == { "worker1", "worker2" }

\* the contents a.html takes while the watcher runs; b.html stays as it is
WatchContents ==
    << << DefineX, Text(<<"X", "(", ")">>) >>,
       << Text(<<"X", "(", ")">>) >> >>

WatchedB == << Text(<<"t">>) >>

\* hashlib.md5(content).hexdigest(): distinct contents, distinct digests
md5(content) == CHOOSE k \in DOMAIN WatchContents : WatchContents[k] = content

\* FileChangeHandler._update_file_hashes
update_file_hashes == md5(site["a.html"])

\* FileChangeHandler._has_file_changed
has_file_changed == md5(site["a.html"]) # file_hashes

\* trigger_decision altered: is_building is not consulted
trigger_decision_unguarded(building, current_time, last) ==
    IF current_time - last < Debounce THEN "debounce" ELSE "build"

\* the branches of _trigger_build under the lock
trigger_decision(building, current_time, last) ==
    IF building THEN "fold"
    ELSE IF current_time - last < Debounce THEN "debounce"
    ELSE "build"

\* where a thread goes when its _trigger_build call returns
after_return(t) ==
    CASE t = "main" -> "sleep"
      [] OTHER -> "idle"

InitWatch ==
    /\ InitPreprocessor
    /\ InitBuildDir
    /\ site = [f \in HtmlFiles |-> IF f = "a.html" THEN WatchContents[1] ELSE WatchedB]
    /\ source = NoSource
    /\ pc = [t \in Threads |->
               CASE t = "main" -> "trigger"
                 [] t \in { "observer", "worker1", "worker2" } -> "idle"
                 [] OTHER -> "off"]
    /\ frames = NoFrames
    /\ walk = [t \in Threads |-> 1]
    /\ is_building = FALSE
    /\ needs_rebuild = FALSE
    /\ last_trigger = 0
    /\ lock = "free"
    /\ file_hashes = md5(WatchContents[1])
    /\ now = Debounce
    /\ queue = <<>>
    /\ owed = FALSE
    /\ hist = NoHistory
    /\ InitTextOff

\* time passes
Tick ==
    /\ now < MaxTime
    /\ now' = now + 1
    /\ UNCHANGED << ppvars, fsvars, ctlvars, is_building, needs_rebuild, last_trigger,
                    lock, file_hashes, queue, owed, hist, textvars >>

\* a queued event, with the build that is running when it arrives (0: none)
Event(kind) == [ kind |-> kind, during |-> IF is_building THEN last_trigger ELSE 0 ]

\* a.html is modified, or another file is created, deleted or moved, while the
\* observer is running: the event is queued for the observer thread
FsChange ==
    /\ pc["main"] = "sleep"
    /\ Len(queue) < MaxQueue
    /\ \/ /\ \E k \in DOMAIN WatchContents :
               /\ WatchContents[k] # site["a.html"]
               /\ site' = [site EXCEPT !["a.html"] = WatchContents[k]]
          /\ queue' = Append(queue, Event("modified"))
       \/ /\ site' = site
          /\ queue' = Append(queue, Event("created"))
    /\ UNCHANGED << ppvars, source, status, written, ctlvars, is_building,
                    needs_rebuild, last_trigger, lock, file_hashes, now, owed, hist,
                    textvars >>

\* on_modified / on_created / on_deleted / on_moved, up to the _trigger_build call
OnEvent ==
    /\ pc["observer"] = "idle"
    /\ queue # <<>>
    /\ queue' = Tail(queue)
    /\ pc' = [pc EXCEPT !["observer"] =
                IF Head(queue).kind = "modified" /\ ~has_file_changed
                THEN "idle" ELSE "trigger"]
    /\ hist' = observer_history(hist, Head(queue).during, Tail(queue))
    /\ UNCHANGED << ppvars, fsvars, frames, walk, is_building, needs_rebuild,
                    last_trigger, lock, file_hashes, now, owed, textvars >>

\* `with self.build_event.lock:` of _trigger_build and of _execute_build.
\* The model has two worker threads alive at a time: a build that will start a
\* worker ends once one of them has finished.
Acquire(t) ==
    /\ pc[t] \in { "trigger", "finally" }
    /\ lock = "free"
    /\ (pc[t] = "finally" /\ needs_rebuild) => \E w \in Workers : w # t /\ pc[w] = "idle"
    /\ lock' = t
    /\ pc' = [pc EXCEPT ![t] = IF pc[t] = "trigger" THEN "trigger_locked"
                                                     ELSE "finally_locked"]
    /\ UNCHANGED << ppvars, fsvars, frames, walk, is_building, needs_rebuild,
                    last_trigger, file_hashes, now, queue, owed, hist, textvars >>

\* the body of _trigger_build under the lock, and the release
TriggerBuild(t) ==
    /\ pc[t] = "trigger_locked"
    /\ lock = t
    /\ LET d == trigger_decision(is_building, now, last_trigger) IN
         /\ needs_rebuild' = IF d = "build" THEN needs_rebuild ELSE TRUE
         /\ is_building' = IF d = "build" THEN TRUE ELSE is_building
         /\ last_trigger' = IF d = "build" THEN now ELSE last_trigger
         /\ owed' = CASE d = "fold" /\ t = "observer" -> TRUE
                      [] d = "build" -> FALSE
                      [] OTHER -> owed
         /\ hist' = CASE t # "observer" -> hist
                      [] d # "build" -> observer_history(hist, 0, queue)
                      [] hist.handling = 0 -> hist
                      [] OTHER -> [hist EXCEPT !.caused[hist.handling] = @ + 1]
         /\ pc' = [pc EXCEPT ![t] = IF d = "build" THEN "generate_site"
                                                   ELSE after_return(t)]
    /\ lock' = "free"
    /\ UNCHANGED << ppvars, fsvars, frames, walk, file_hashes, now, queue, textvars >>

\* _execute_build after generate_site: _update_file_hashes on success, the
\* except clause on failure
ExecuteBuildEnd(t) ==
    /\ pc[t] \in { "returned", "io_error", "raised" }
    /\ file_hashes' = IF pc[t] = "returned" THEN update_file_hashes ELSE file_hashes
    /\ pc' = [pc EXCEPT ![t] = "finally"]
    /\ hist' = [hist EXCEPT !.failed = @ \/ pc[t] # "returned"]
    /\ UNCHANGED << ppvars, fsvars, frames, walk, is_building, needs_rebuild,
                    last_trigger, lock, now, queue, owed, textvars >>

\* finally_is_building altered: the flag is left as it is
finally_is_building_kept == is_building

\* `self.build_event.is_building = False` of the finally clause
finally_is_building == FALSE

\* the finally clause of _execute_build under the lock, and the release
ExecuteBuildFinally(t) ==
    /\ pc[t] = "finally_locked"
    /\ lock = t
    /\ is_building' = finally_is_building
    /\ needs_rebuild' = FALSE
    /\ IF needs_rebuild
       THEN \E w \in Workers :
              /\ pc[w] = "idle"
              /\ w # t
              /\ pc' = [pc EXCEPT ![t] = after_return(t), ![w] = "trigger"]
       ELSE pc' = [pc EXCEPT ![t] = after_return(t)]
    /\ lock' = "free"
    /\ hist' = IF t = "observer" THEN observer_history(hist, 0, queue) ELSE hist
    /\ UNCHANGED << ppvars, fsvars, frames, walk, last_trigger, file_hashes, now,
                    queue, owed, textvars >>

Watcher(t) ==
    \/ Acquire(t)
    \/ TriggerBuild(t)
    \/ Generate(t)
    \/ ExecuteBuildEnd(t)
    \/ ExecuteBuildFinally(t)

NextWatch ==
    \/ Tick
    \/ FsChange
    \/ OnEvent
    \/ \E t \in WatchThreads : Watcher(t)

SpecWatch == InitWatch /\ [][NextWatch]_vars

\* ------------------------------------------------------------------------
\* The watcher under bursts of events: files other than a.html are created,
\* deleted or moved, several events can wait for the observer thread
\* ------------------------------------------------------------------------

Burst ==
    /\ pc["main"] = "sleep"
    /\ Len(queue) < MaxBurst
    /\ queue' = Append(queue, Event("created"))
    /\ UNCHANGED << ppvars, fsvars, ctlvars, is_building, needs_rebuild,
                    last_trigger, lock, file_hashes, now, owed, hist, textvars >>

NextBurst ==
    \/ Tick
    \/ Burst
    \/ OnEvent
    \/ \E t \in WatchThreads : Watcher(t)

SpecBurst == InitWatch /\ [][NextBurst]_vars

\* ------------------------------------------------------------------------
\* Preprocessor.process_text on its own: one call on a line, with a macro table
\* of two macros in either insertion order
\* ------------------------------------------------------------------------

LineChars == { "A", "B", "(", ")", "t" }

MacrosA ==
    { MacroOf(DefineLine("A", <<>>, <<"t">>)),
      MacroOf(DefineLine("A", <<>>, <<"B", "(", ")">>)),
      MacroOf(DefineLine("A", <<"x">>, <<"{", "x", "}">>)),
      MacroOf(DefineLine("A", <<"x">>, <<"{", "x", "}", "(", ")">>)) }

MacrosB ==
    { MacroOf(DefineLine("B", <<>>, <<"t">>)),
      MacroOf(DefineLine("B", <<>>, <<"A", "(", ")">>)) }

MacroTables ==
    { << a, b >> : a \in MacrosA, b \in MacrosB } \cup
    { << b, a >> : a \in MacrosA, b \in MacrosB }

InitText ==
    /\ macros \in MacroTables
    /\ defined_symbols = keys(macros)
    /\ include_stack = <<>>
    /\ conditional_stack = <<>>
    /\ open_ifs = 0
    /\ file_start = [macros |-> macros, defined_symbols |-> keys(macros),
                     conditional_stack |-> <<>>]
    /\ InitBuildDir
    /\ site = [f \in HtmlFiles |-> <<>>]
    /\ source = NoSource
    /\ pc = [t \in Threads |-> "off"]
    /\ frames = NoFrames
    /\ walk = [t \in Threads |-> 1]
    /\ InitWatcherOff
    /\ line \in SeqsUpTo(LineChars, MaxLineLen)
    /\ emitted = NotEmitted

ProcessText ==
    /\ ~emitted.done
    /\ LET r == process_text(line, macros) IN
         emitted' = [done |-> TRUE, ok |-> r.ok, text |-> r.text]
    /\ UNCHANGED << ppvars, fsvars, ctlvars, watchvars, line >>

NextText == ProcessText

SpecText == InitText /\ [][NextText]_vars

\* ------------------------------------------------------------------------
\* main on a site whose a.html is given as text: tokenize included
\* ------------------------------------------------------------------------

\* the lines a.html is made of
LexLines ==
    { DefineLine("M", << "x" >>, << "x", "{", "x", "}" >>),
      << "#define", " ", "M", "(", "x", ")", "(" >>,
      << "{", "x", "}", ")" >>,
      << "M", "(", "H", ")" >>,
      << "M", "(" >>,
      << "H", ")" >>,
      << " ", "t" >>,
      <<>>,
      DefineLine("X", <<>>, << "v" >>),
      << "#undef", " ", "X" >> }

\* the contents of b.html: empty, `#include "a.html"`, or `#define X()(v)`
\* followed by `#undef X`
LexIncluded ==
    { <<>>,
      << Directive("INCLUDE", "a.html") >>,
      tokenize(<< DefineLine("X", <<>>, << "v" >>), << "#undef", " ", "X" >> >>,
               <<>>).tokens }

InitLex ==
    /\ InitPreprocessor
    /\ InitBuildDir
    /\ source \in [ { "a.html" } -> SeqsUpTo(LexLines, MaxLines) \ { <<>> } ]
    /\ site \in { [f \in HtmlFiles |->
                     IF f = "a.html" THEN tokenize(source[f], <<>>).tokens ELSE b] :
                  b \in LexIncluded }
    /\ pc = [t \in Threads |-> IF t = "cli" THEN "generate_site" ELSE "off"]
    /\ frames = NoFrames
    /\ walk = [t \in Threads |-> 1]
    /\ InitWatcherOff
    /\ InitTextOff

SpecLex == InitLex /\ [][Next]_vars

\* ------------------------------------------------------------------------
\* Properties
\* ------------------------------------------------------------------------

Files == { WalkOrder[j] : j \in DOMAIN WalkOrder }

\* the thread is between two files of the walk, the last one being f
JustFinished(t, f) ==
    /\ pc[t] = "walk"
    /\ frames[t] = <<>>
    /\ walk[t] > 1
    /\ WalkOrder[walk[t] - 1] = f

ErrorKinds ==
    { "circular", "missing", "recursion", "arity", "else without if", "endif without if",
      "unmatched" }

\* C1: in pass 2 the depth of the conditional stack equals the number of
\* #ifdef/#ifndef directives walked and not yet closed by an #endif, nested
\* directives of a suppressed region included
C1_DepthIsOpenDirectives == Len(conditional_stack) = open_ifs

\* C4: when a root file has been processed successfully (its output was
\* written), the conditional stack is empty
C4_EmptyAfterSuccess ==
    \A t \in Threads : \A f \in HtmlFiles :
        (JustFinished(t, f) /\ status[f] = "written") => conditional_stack = <<>>

\* --- the include graph of the site ---

Paths == { "a.html", "b.html", "m.html" }

Includes(f) ==
    IF f \in DOMAIN site
    THEN { normpath(site[f][k].value) :
             k \in { j \in DOMAIN site[f] : site[f][j].type = "INCLUDE" } }
    ELSE {}

RECURSIVE Closure(_, _)
Closure(S, n) ==
    IF n = 0 THEN S
    ELSE Closure(S \cup UNION { Includes(g) : g \in S }, n - 1)

\* the paths reached from f through one or more #include directives
Reaches(f) == Closure(Includes(f), Cardinality(Paths))

\* a cycle of the include graph is reachable from f
HasCycle(f) == \E g \in { f } \cup Reaches(f) : g \in Reaches(g)

\* every file reachable from f through #include exists
AllIncludesExist(f) == Reaches(f) \subseteq DOMAIN site

\* C5 as stated: an entry file from which a cycle of the include graph is
\* reachable ends with the circular-inclusion error
C5_CycleAlwaysCircular ==
    \A f \in HtmlFiles :
        (status[f] # "absent" /\ HasCycle(f)) => status[f] = "circular"

\* C5 amended: an entry file from which a cycle of the include graph is
\* reachable, all files reachable from it through #include existing, ends with
\* the circular-inclusion error
C5_CycleCircularWhenFilesExist ==
    \A f \in HtmlFiles :
        (status[f] # "absent" /\ HasCycle(f) /\ AllIncludesExist(f))
            => status[f] = "circular"

\* C5 witness: a.html and b.html include each other, and each ended with the
\* circular-inclusion error as the entry file
C5_Witness ==
    /\ "b.html" \in Includes("a.html")
    /\ "a.html" \in Includes("b.html")
    /\ status["a.html"] = "circular"
    /\ status["b.html"] = "circular"

\* C6: outside process_file (no call of it in progress) include_stack is empty
C6_IncludeStackBalanced ==
    (\A t \in Threads : frames[t] = <<>>) => include_stack = <<>>

\* C6 witness: process_file(a.html) was left by the arity error of a call in
\* the included b.html, raised while b.html was on include_stack
C6_Witness ==
    \E t \in Threads :
        /\ JustFinished(t, "a.html")
        /\ status["a.html"] = "arity"
        /\ \A k \in DOMAIN site["a.html"] : site["a.html"][k].type # "TEXT"
        /\ "b.html" \in Includes("a.html")
        /\ include_stack = <<>>

\* C7: a name is in defined_symbols iff it is a key of macros
C7_SymbolsAreKeys == keys(macros) = defined_symbols

\* C7 witness: pass 2 has just handled an #undef of a macro that pass 1 had
\* collected from the same file
C7_Witness ==
    \E t \in Threads :
        /\ frames[t] # <<>>
        /\ LET f == frames[t][Len(frames[t])] IN
             /\ f.fn = "process_tokens"
             /\ f.i > 1
             /\ f.tokens[f.i - 1].type = "UNDEF"
             /\ \E k \in DOMAIN f.tokens : f.tokens[k].type = "DEFINE"
             /\ "X" \notin defined_symbols
             /\ "X" \notin keys(macros)
             /\ conditional_stack = <<>>

\* C8: no preprocessor error leaves generate_site, and when generate_site
\* returns every walked file but the .py sources was written, copied or reported
C8_ErrorConfined ==
    \A t \in Threads :
        /\ pc[t] # "raised"
        /\ pc[t] = "returned" =>
             \A f \in Files : ~endswith(f, ".py") => status[f] # "absent"

\* C8 witness: generate_site returned after a.html failed, b.html was written
\* and style.css copied
C8_Witness ==
    \E t \in Threads :
        /\ pc[t] = "returned"
        /\ status["a.html"] \in ErrorKinds
        /\ status["b.html"] = "written"
        /\ status["style.css"] = "copied"

\* --- the watcher ---

\* the thread is executing Preprocessor.generate_site
InGenerateSite(t) == pc[t] \in { "generate_site", "walk" }

\* no thread is in or about to enter _trigger_build or _execute_build, and no
\* event waits for the observer
Quiescent ==
    /\ \A t \in WatchThreads : pc[t] \in { "idle", "sleep" }
    /\ queue = <<>>

\* a worker thread can always be started when the finally clause needs one
WorkerAvailable ==
    \A t \in WatchThreads :
        (pc[t] = "finally_locked" /\ needs_rebuild) =>
            \E w \in Workers : w # t /\ pc[w] = "idle"

\* C2: at most one thread executes generate_site at any time
C2_OneBuildAtATime ==
    Cardinality({ t \in Threads : InGenerateSite(t) }) <= 1

\* C2 witness: a worker thread executes generate_site while the observer thread
\* is in _trigger_build, holding the lock
C2_Witness ==
    /\ \E w \in Workers : InGenerateSite(w)
    /\ pc["observer"] = "trigger_locked"
    /\ is_building

\* C3: once an event has been folded into needs_rebuild during a build, the
\* watcher does not come to rest before another build has started
C3_FoldedEventGetsBuild == owed => ~Quiescent

\* C9: when a thread is about to run a generate_site pass, the macro table,
\* the defined symbols, the include stack and the conditional stack are empty
C9_FreshAtBuildStart ==
    \A t \in Threads :
        pc[t] = "generate_site" =>
            /\ macros = <<>>
            /\ defined_symbols = {}
            /\ include_stack = <<>>
            /\ conditional_stack = <<>>

\* --- process_text ---

\* macro i of the table is the only one whose call pattern matches the line
OnlyCall(i) ==
    /\ re_search(line, macros[i].name) # 0
    /\ \A j \in DOMAIN macros : j # i => re_search(line, macros[j].name) = 0

\* C10: when the line holds a call of one macro only, the emitted line is the
\* line with that call replaced by its expansion and nothing else expanded,
\* whatever the order of the macros in the table
C10_SinglePass ==
    emitted.done =>
        \A i \in DOMAIN macros :
            (OnlyCall(i) /\ process_text_one(line, macros[i]).ok) =>
                /\ emitted.ok
                /\ emitted.text = process_text_one(line, macros[i]).text

\* --- the conditional stack, the include stack and the two passes ---

\* thread t is in process_tokens' loop, at a token of the kinds given
AtToken(t, kinds) ==
    /\ frames[t] # <<>>
    /\ LET f == frames[t][Len(frames[t])] IN
         /\ f.fn = "process_tokens"
         /\ f.i <= Len(f.tokens)
         /\ f.tokens[f.i].type \in kinds

\* thread t is in process_tokens' loop and the last token it handled is of type
JustHandled(t, type) ==
    /\ frames[t] # <<>>
    /\ LET f == frames[t][Len(frames[t])] IN
         /\ f.fn = "process_tokens"
         /\ f.i > 1
         /\ f.tokens[f.i - 1].type = type

\* C15: an #else or #endif handled with an empty conditional stack ends the
\* file with an error and leaves the stack empty; with a non-empty stack #else
\* inverts the top element only and #endif removes the top element only
C15_ElseEndifTouchTopOnly ==
    [][\A t \in Threads :
         (AtToken(t, { "ELSE", "ENDIF" }) /\ frames'[t] # frames[t]) =>
            LET f == frames[t][Len(frames[t])]
                n == Len(conditional_stack)
            IN IF n = 0
               THEN /\ conditional_stack' = <<>>
                    /\ frames'[t] = <<>>
                    /\ status'[WalkOrder[walk[t]]]
                         \in { "else without if", "endif without if" }
               ELSE IF f.tokens[f.i].type = "ELSE"
               THEN conditional_stack' =
                      [k \in 1..n |-> IF k = n THEN ~conditional_stack[k]
                                               ELSE conditional_stack[k]]
               ELSE conditional_stack' = [k \in 1..(n - 1) |-> conditional_stack[k]]
      ]_vars

\* C15 witness: an #else has just been handled under two open conditionals and
\* inverted the inner one only
C15_Witness ==
    \E t \in Threads :
        /\ JustHandled(t, "ELSE")
        /\ conditional_stack = << TRUE, FALSE >>

\* C17: no path occurs twice on include_stack
C17_NoPathTwice ==
    \A j, k \in DOMAIN include_stack :
        include_stack[j] = include_stack[k] => j = k

\* C17 witness: pass 2 of a.html is inside b.html, which process_include pushed
C17_Witness ==
    \E t \in Threads :
        /\ Len(frames[t]) = 2
        /\ frames[t][1].file = "a.html"
        /\ frames[t][1].fn = "process_tokens"
        /\ frames[t][2].fn = "process_tokens"
        /\ frames[t][2].inc
        /\ frames[t][2].i > 1
        /\ include_stack = << "b.html" >>

\* the names of the #define tokens of file f
Defines(f) ==
    IF f \in DOMAIN site
    THEN { site[f][k].value : k \in { j \in DOMAIN site[f] : site[f][j].type = "DEFINE" } }
    ELSE {}

\* pass 1 over root file f has returned and pass 2 has not begun
PassOneDone(t, f) ==
    /\ Len(frames[t]) = 1
    /\ frames[t][1].fn = "process_tokens"
    /\ frames[t][1].file = f
    /\ frames[t][1].i = 1

\* C18: after pass 1 over a root file the macro table has an entry for every
\* #define of the root file and of every file reachable from it through
\* #include, whatever conditional regions and #undef directives surround it
C18_PassOneCollectsClosure ==
    \A t \in Threads : \A f \in HtmlFiles :
        PassOneDone(t, f) =>
            \A g \in { f } \cup Reaches(f) : Defines(g) \subseteq keys(macros)

\* C18 witness: pass 1 over a.html, the first file of the build, has returned;
\* a.html has its #define in a region that #ifndef will disable and includes
\* b.html, which has a #define too
C18_Witness ==
    \E t \in Threads :
        /\ PassOneDone(t, "a.html")
        /\ status["a.html"] = "absent"
        /\ site["a.html"] = << Directive("IFNDEF", "X"), DefineX, Directive("INCLUDE", "b.html") >>
        /\ Defines("b.html") # {}
        /\ "X" \in keys(macros)

\* C19: in pass 2 an #undef, #include or text token under a false top of the
\* conditional stack changes neither the macro table, the defined symbols, the
\* include stack nor the output collected so far
C19_SuppressedTokenNoEffect ==
    [][\A t \in Threads :
         ( /\ AtToken(t, { "UNDEF", "INCLUDE", "TEXT" })
           /\ conditional_stack # <<>>
           /\ ~conditional_stack[Len(conditional_stack)]
           /\ frames'[t] # frames[t] ) =>
              /\ macros' = macros
              /\ defined_symbols' = defined_symbols
              /\ include_stack' = include_stack
              /\ Len(frames'[t]) = Len(frames[t])
              /\ \A k \in DOMAIN frames[t] : frames'[t][k].out = frames[t][k].out
              /\ written' = written
      ]_vars

\* C19 witness: an #undef X has just been passed over in a suppressed region
\* and X is still defined
C19_Witness ==
    \E t \in Threads :
        /\ JustHandled(t, "UNDEF")
        /\ conditional_stack # <<>>
        /\ ~conditional_stack[Len(conditional_stack)]
        /\ "X" \in defined_symbols
        /\ "X" \in keys(macros)

\* --- the watcher: bursts and failed builds ---

\* C16: the events that arrive while one build is running start at most one
\* build after it
C16_BurstStartsOneBuild == \A n \in DOMAIN hist.caused : hist.caused[n] <= 1

\* the thread is inside _execute_build
InExecuteBuild(t) ==
    pc[t] \in { "generate_site", "walk", "returned", "io_error", "raised",
                "finally", "finally_locked" }

\* C20: is_building is false whenever no thread is inside _execute_build, after
\* a failed build as after a successful one, and a _trigger_build call that
\* finds is_building false outside the debounce window starts a build
C20_FailedBuildReleases ==
    /\ []((\A t \in WatchThreads : ~InExecuteBuild(t)) => ~is_building)
    /\ [][\A t \in WatchThreads :
            ( /\ pc[t] = "trigger_locked"
              /\ pc'[t] # pc[t]
              /\ ~is_building
              /\ now - last_trigger >= Debounce ) => pc'[t] = "generate_site"
         ]_vars

\* C20 witness: a build has failed and the observer thread, handling a later
\* event, is about to run generate_site
C20_Witness ==
    /\ hist.failed
    /\ pc["observer"] = "generate_site"
    /\ is_building

\* --- a.html given as text ---

Keywords == { "#include", "#define", "#ifdef", "#ifndef", "#else", "#endif", "#undef" }

IsDirectiveLine(l) == strip(l) # <<>> /\ strip(l)[1] \in Keywords

\* a one-line `#define M(p)(BODY)`
IsDefineOfM(d) ==
    /\ startswith(d, "#define")
    /\ define_match(d).ok
    /\ define_match(d).name = "M"
    /\ Len(define_match(d).params) = 1
    /\ count_parens(d, 0) = 0

\* BODY: the text after the parenthesis that opens the body, up to the last
\* closing parenthesis of the line
BodyOf(d) == SubSeq(d, define_match(d).open + 1, rindex(d, ")") - 1)

CallOfM == << "M", "(", "H", ")" >>

\* C11: a file made of a one-line `#define M(p)(BODY)` and the call M(H) is
\* written as BODY with every {p} replaced by H, and nothing of the #define
\* line before BODY
C11_ExpansionIsBody ==
    \A t \in Threads : \A d \in LexLines :
        ( /\ JustFinished(t, "a.html")
          /\ IsDefineOfM(d)
          /\ source["a.html"] = << d, CallOfM >> ) =>
             /\ status["a.html"] = "written"
             /\ written["a.html"] =
                  << re_sub_placeholder(define_match(d).params[1], << "H" >>, BodyOf(d)) >>

\* C12: a file without directive lines, processed with an empty macro table, is
\* written as its non-blank lines, in order and as they are in the source
C12_TextPassesThrough ==
    \A t \in Threads :
        ( /\ JustFinished(t, "a.html")
          /\ file_start.macros = <<>>
          /\ \A k \in DOMAIN source["a.html"] : ~IsDirectiveLine(source["a.html"][k]) ) =>
             /\ status["a.html"] = "written"
             /\ written["a.html"] =
                  SelectSeq(source["a.html"], LAMBDA l : strip(l) # <<>>)

\* b.html is `#define X()(v)` followed by `#undef X`
IsDefineUndefX(tokens) ==
    /\ Len(tokens) = 2
    /\ tokens[1].type = "DEFINE" /\ tokens[1].value = "X"
    /\ tokens[2].type = "UNDEF" /\ tokens[2].value = "X"

\* process_file has returned from b.html, which it processed in an active region
DefineUndefDone(t) ==
    /\ JustFinished(t, "b.html")
    /\ IsDefineUndefX(site["b.html"])
    /\ status["b.html"] = "written"
    /\ conditional_stack = <<>>

\* C13 as stated: `#define X()(v)` followed by `#undef X` leaves the macro
\* table and the defined symbols as they were, whatever they were
C13_DefineUndefRestoresAny ==
    \A t \in Threads :
        DefineUndefDone(t) =>
            /\ macros = file_start.macros
            /\ defined_symbols = file_start.defined_symbols

\* C13 amended: `#define X()(v)` followed by `#undef X` leaves the macro table
\* and the defined symbols as they were, when X was not defined before
C13_DefineUndefRestoresUndefined ==
    \A t \in Threads :
        (DefineUndefDone(t) /\ "X" \notin keys(file_start.macros)) =>
            /\ macros = file_start.macros
            /\ defined_symbols = file_start.defined_symbols

\* C13 witness: b.html was processed with M in the table and X not in it, and
\* the table is as it was
C13_Witness ==
    \E t \in Threads :
        /\ DefineUndefDone(t)
        /\ keys(file_start.macros) = { "M" }
        /\ macros = file_start.macros

\* --- arity ---

\* the pieces of an argument text between its commas outside parentheses
RECURSIVE TopLevelPieces(_, _, _)
TopLevelPieces(text, cur, depth) ==
    IF text = <<>> THEN << cur >>
    ELSE LET c == Head(text) IN
         IF c = "," /\ depth = 0
         THEN << cur >> \o TopLevelPieces(Tail(text), <<>>, depth)
         ELSE TopLevelPieces(Tail(text), Append(cur, c),
                             CASE c = "(" -> depth + 1
                               [] c = ")" -> depth - 1
                               [] OTHER -> depth)

\* the number of arguments of a call: its non-blank pieces
ArgCount(text) ==
    Len(SelectSeq(TopLevelPieces(text, <<>>, 0), LAMBDA a : strip(a) # <<>>))

\* the positions in the line where a call NAME(...) of the macro starts
Calls(text, name) == { s \in DOMAIN text : match_at(text, s, name).close # 0 }

\* the call of macro m at position s of the line has as many arguments as m
\* has parameters
ArityMatches(text, s, m) ==
    LET c == match_at(text, s, m.name) IN
    ArgCount(SubSeq(text, c.open + 1, c.close - 1)) = Len(m.params)

\* C14: process_text raises the arity error when a call in the line has a
\* number of arguments other than the macro's number of parameters, and does
\* not raise it when every call in the line has as many arguments as its macro
\* has parameters
C14_ArityErrorIffMismatch ==
    emitted.done =>
        (emitted.ok <=>
            \A i \in DOMAIN macros : \A s \in Calls(line, macros[i].name) :
                ArityMatches(line, s, macros[i]))

\* C21: when process_file, called with an empty conditional stack, has been
\* left by an error (the file's status is an error kind), the conditional
\* stack is empty: no conditional the failed file opened reaches the files
\* processed after it
C21_EmptyAfterError ==
    \A t \in Threads : \A f \in HtmlFiles :
        ( /\ JustFinished(t, f)
          /\ status[f] \in ErrorKinds
          /\ file_start.conditional_stack = <<>> ) => conditional_stack = <<>>

====
